---- MODULE Spec2Model ----
(***************************************************************************)
(* A model of the texture manager of graphics/TextureManager.cpp:          *)
(* the texture cache keyed by CTextureProperties, the per-texture loading  *)
(* state machine, the archive/loose cache decision, the conversion         *)
(* requests handed to the texture converter, and hotloading.               *)
(***************************************************************************)
EXTENDS Integers, Sequences, FiniteSets, TLC

VARIABLES
    m_DisableGL,        \* constructor argument disableGL
    textures,           \* the live CTexture objects: id -> [m_Properties, m_State, m_Handle]
    handles,            \* the live handles of h_mgr: handle -> reference count
    m_ErrorTexture,     \* <<>> (null pointer) or <<id>>
    m_TextureCache,     \* the std::set, as the sequence of ids in TextureCacheCmp order
    m_HotloadFiles,     \* path -> set of texture ids
    m_SettingsFiles,    \* settings path -> [loaded, data]
    m_TextureConverter, \* <<>> (no job) or <<[texture, dest, status]>>
    vfs,                \* existing files: path -> [priority, mtime, size, data]
    vfsChanges,         \* number of file system changes made by the environment
    ret                 \* the last call that changed a member, and what it returned:
                        \* [op, tex, ok, load, step]

vars == <<m_DisableGL, textures, handles, m_ErrorTexture, m_TextureCache, m_HotloadFiles,
          m_SettingsFiles, m_TextureConverter, vfs, vfsChanges, ret>>

-----------------------------------------------------------------------------
(* Bounds of the model *)

\* the number of textures CreateTexture may add to the cache
MaxTextures == 2

\* the number of changes the environment makes to the file system
MaxVfsChanges == 1

\* the largest modification time of the validity-policy table
MaxMTime == 5

\* the largest size of a source file
MaxSize == 2

\* the largest mount priority of the validity-policy table
MaxPriority == 2

-----------------------------------------------------------------------------
(* CTexture::m_State *)

UNLOADED == "UNLOADED"
PREFETCH_NEEDS_LOADING == "PREFETCH_NEEDS_LOADING"
PREFETCH_NEEDS_CONVERTING == "PREFETCH_NEEDS_CONVERTING"
PREFETCH_IS_CONVERTING == "PREFETCH_IS_CONVERTING"
HIGH_NEEDS_CONVERTING == "HIGH_NEEDS_CONVERTING"
HIGH_IS_CONVERTING == "HIGH_IS_CONVERTING"
LOADED == "LOADED"

States == {UNLOADED, PREFETCH_NEEDS_LOADING, PREFETCH_NEEDS_CONVERTING,
           PREFETCH_IS_CONVERTING, HIGH_NEEDS_CONVERTING, HIGH_IS_CONVERTING, LOADED}

-----------------------------------------------------------------------------
(* Paths.  A VfsPath is [dir, leaf, digest, dds]: the directory components,   *)
(* the file name, the digest infix of a loose cache file (<<>> when there is  *)
(* none) and whether the name ends in ".dds".                                 *)

Front(s) == SubSeq(s, 1, Len(s) - 1)

Last(s) == s[Len(s)]

VfsPath(dir, leaf) == [dir |-> dir, leaf |-> leaf, digest |-> <<>>, dds |-> FALSE]

\* VfsPath(): the empty path
EmptyPath == VfsPath(<<>>, "")

\* the source paths textures are created for, in the order of operator< on paths
SourcePaths == << VfsPath(<<>>, "a.png"), VfsPath(<<"art">>, "b.png") >>

\* the source path most textures of the model are made for
MainPath == SourcePaths[2]

PathRank(p) == CHOOSE i \in 1..Len(SourcePaths) : SourcePaths[i] = p

\* a.m_Path < b.m_Path
PathLess(a, b) == PathRank(a) < PathRank(b)

Filters == {1, 2}
Wraps == {1, 2}
Anisos == {1, 2}

CTextureProperties(path, filter, wrap, aniso) ==
    [m_Path |-> path, m_Filter |-> filter, m_Wrap |-> wrap, m_Aniso |-> aniso]

AllProperties ==
    { CTextureProperties(SourcePaths[i], f, w, a) :
        i \in 1..Len(SourcePaths), f \in Filters, w \in Wraps, a \in Anisos }

\* the properties the callers of CreateTexture ask for: a texture, one of
\* another filter and one of another path
RequestedProperties ==
    { CTextureProperties(MainPath, 1, 1, 1), CTextureProperties(MainPath, 2, 1, 1),
      CTextureProperties(SourcePaths[1], 1, 1, 1) }

\* sourceDir / (sourceName + L".dds")
ArchiveCachePath(sourcePath) == [sourcePath EXCEPT !.dds = TRUE]

\* p / L"textures.xml" for the first n components p of the source path
SettingsPath(sourcePath, n) == VfsPath(SubSeq(sourcePath.dir, 1, n), "textures.xml")

SettingsPaths(sourcePath) ==
    [ n \in 1..(Len(sourcePath.dir) + 1) |-> SettingsPath(sourcePath, n - 1) ]

\* the settings files of the source paths
SettingsFilePaths ==
    UNION { { SettingsPaths(SourcePaths[i])[n] : n \in DOMAIN SettingsPaths(SourcePaths[i]) } :
            i \in 1..Len(SourcePaths) }

SourceFilePaths == { SourcePaths[i] : i \in 1..Len(SourcePaths) }

-----------------------------------------------------------------------------
(* TextureCacheCmp *)

\* the comparison with <= for < in its last test: it ends in "return true"
TextureCacheCmpNotStrict(a, b) ==
    IF PathLess(a.m_Path, b.m_Path) THEN TRUE
    ELSE IF PathLess(b.m_Path, a.m_Path) THEN FALSE
    ELSE IF a.m_Filter < b.m_Filter THEN TRUE
    ELSE IF b.m_Filter < a.m_Filter THEN FALSE
    ELSE IF a.m_Wrap < b.m_Wrap THEN TRUE
    ELSE IF b.m_Wrap < a.m_Wrap THEN FALSE
    ELSE IF a.m_Aniso < b.m_Aniso THEN TRUE
    ELSE IF b.m_Aniso < a.m_Aniso THEN FALSE
    ELSE TRUE

\* the comparison without its tests of m_Aniso
TextureCacheCmpNoAniso(a, b) ==
    IF PathLess(a.m_Path, b.m_Path) THEN TRUE
    ELSE IF PathLess(b.m_Path, a.m_Path) THEN FALSE
    ELSE IF a.m_Filter < b.m_Filter THEN TRUE
    ELSE IF b.m_Filter < a.m_Filter THEN FALSE
    ELSE IF a.m_Wrap < b.m_Wrap THEN TRUE
    ELSE IF b.m_Wrap < a.m_Wrap THEN FALSE
    ELSE FALSE

TextureCacheCmp(a, b) ==
    IF PathLess(a.m_Path, b.m_Path) THEN TRUE
    ELSE IF PathLess(b.m_Path, a.m_Path) THEN FALSE
    ELSE IF a.m_Filter < b.m_Filter THEN TRUE
    ELSE IF b.m_Filter < a.m_Filter THEN FALSE
    ELSE IF a.m_Wrap < b.m_Wrap THEN TRUE
    ELSE IF b.m_Wrap < a.m_Wrap THEN FALSE
    ELSE IF a.m_Aniso < b.m_Aniso THEN TRUE
    ELSE IF b.m_Aniso < a.m_Aniso THEN FALSE
    ELSE FALSE

\* the equivalence std::set derives from its comparison
Equivalent(a, b) == ~TextureCacheCmp(a, b) /\ ~TextureCacheCmp(b, a)

-----------------------------------------------------------------------------
(* The virtual file system (m_VFS) *)

FileInfo(priority, mtime, size, data) ==
    [priority |-> priority, mtime |-> mtime, size |-> size, data |-> data]

\* m_VFS->GetFileInfo(path, ...) >= 0, m_VFS->GetFilePriority(path, ...) >= 0
FileExists(path) == path \in DOMAIN vfs

\* a function without its value at x
Without(f, x) == [ y \in DOMAIN f \ {x} |-> f[y] ]

\* a function with the value v at x
With(f, x, v) == [ y \in DOMAIN f \cup {x} |-> IF y = x THEN v ELSE f[y] ]

-----------------------------------------------------------------------------
(* Handles of lib/res/h_mgr: handle -> reference count, for the live handles *)

\* m_DefaultHandle: 0 with GL disabled, else the first handle ogl_tex_wrap gave
m_DefaultHandle == IF m_DisableGL THEN 0 ELSE 1

\* m_ErrorHandle: 0 with GL disabled, else the second handle ogl_tex_wrap gave
m_ErrorHandle == IF m_DisableGL THEN 0 ELSE 2

\* h_add_ref
AddRef(hr, h) == IF h \in DOMAIN hr THEN [hr EXCEPT ![h] = @ + 1] ELSE hr

\* ogl_tex_free: drops one reference and frees the handle with the last one
FreeHandle(hr, h) ==
    IF h \notin DOMAIN hr THEN hr
    ELSE IF hr[h] = 1 THEN Without(hr, h)
    ELSE [hr EXCEPT ![h] = @ - 1]

\* the handle ogl_tex_load(..., RES_UNIQUE) returns: one that is not live
FreshHandle(hr) ==
    CHOOSE h \in 1..(Cardinality(DOMAIN hr) + 1) :
        h \notin DOMAIN hr /\ \A k \in 1..(h - 1) : k \in DOMAIN hr

-----------------------------------------------------------------------------
(* The operations below work on the manager's mutable members, passed and   *)
(* returned as m = [tx, hr, hf, sf]: the textures, the handles' reference   *)
(* counts, m_HotloadFiles and m_SettingsFiles.                              *)

Members == [tx |-> textures, hr |-> handles, hf |-> m_HotloadFiles, sf |-> m_SettingsFiles]

\* SetHandle taking no reference on the new handle
SetHandleNoAddRef(m, t, handle, takeOwnership) ==
    IF handle = m.tx[t].m_Handle THEN m
    ELSE [m EXCEPT !.tx[t].m_Handle = handle,
                   !.hr = FreeHandle(m.hr, m.tx[t].m_Handle)]

\* CTexture::SetHandle
SetHandle(m, t, handle, takeOwnership) ==
    IF handle = m.tx[t].m_Handle THEN m
    ELSE LET added == IF ~takeOwnership THEN AddRef(m.hr, handle) ELSE m.hr
         IN  [m EXCEPT !.tx[t].m_Handle = handle,
                       !.hr = FreeHandle(added, m.tx[t].m_Handle)]

\* the results of ogl_tex_load and ogl_tex_upload for a file
LoadOutcomes(path) ==
    IF m_DisableGL THEN {"skipped"}
    ELSE IF FileExists(path) THEN {"loaded", "load_failed", "upload_failed"}
    ELSE {"load_failed"}

\* LoadTexture leaving the texture's handle as it is when the load or the
\* upload fails
LoadTextureKeepHandle(m, t, path, outcome) ==
    IF m_DisableGL THEN m
    ELSE IF outcome \in {"load_failed", "upload_failed"} THEN m
    ELSE SetHandle([m EXCEPT !.hr = With(m.hr, FreshHandle(m.hr), 1)], t, FreshHandle(m.hr), TRUE)

\* CTextureManagerImpl::LoadTexture, outcome being what ogl_tex_load and
\* ogl_tex_upload answer
LoadTexture(m, t, path, outcome) ==
    IF m_DisableGL THEN m
    ELSE IF outcome = "load_failed" THEN SetHandle(m, t, m_ErrorHandle, FALSE)
    ELSE LET h == FreshHandle(m.hr)
             loaded == [m EXCEPT !.hr = With(m.hr, h, 1)]
         IN  IF outcome = "upload_failed"
             THEN SetHandle([loaded EXCEPT !.hr = FreeHandle(loaded.hr, h)], t, m_ErrorHandle, FALSE)
             ELSE SetHandle(loaded, t, h, TRUE)

\* CanUseArchiveCache refusing a source that is newer by the threshold itself
CanUseArchiveCacheAtThreshold(sourcePath, archiveCachePath) ==
    IF ~FileExists(archiveCachePath) THEN FALSE
    ELSE IF ~FileExists(sourcePath) THEN TRUE
    ELSE IF vfs[archiveCachePath].priority < vfs[sourcePath].priority THEN FALSE
    ELSE IF vfs[sourcePath].mtime - vfs[archiveCachePath].mtime >= 2 THEN FALSE
    ELSE TRUE

\* CTextureManagerImpl::CanUseArchiveCache
CanUseArchiveCache(sourcePath, archiveCachePath) ==
    LET sourceExists == FileExists(sourcePath)
        archiveCacheExists == FileExists(archiveCachePath)
    IN  IF ~archiveCacheExists THEN FALSE
        ELSE IF ~sourceExists THEN TRUE
        ELSE IF vfs[archiveCachePath].priority < vfs[sourcePath].priority THEN FALSE
        ELSE IF FileExists(sourcePath) /\ FileExists(archiveCachePath)
                /\ vfs[sourcePath].mtime - vfs[archiveCachePath].mtime > 2
             THEN FALSE
        ELSE TRUE

\* GetSettingsFile asking the file system again for a path it has stored as
\* not existing
GetSettingsFileReprobe(m, path) ==
    IF path \in DOMAIN m.sf /\ m.sf[path].loaded
    THEN [m |-> m, file |-> <<m.sf[path].data>>]
    ELSE IF FileExists(path)
    THEN [m |-> [m EXCEPT !.sf = With(m.sf, path, [loaded |-> TRUE, data |-> vfs[path].data])],
          file |-> <<vfs[path].data>>]
    ELSE [m |-> [m EXCEPT !.sf = With(m.sf, path, [loaded |-> FALSE, data |-> 0])],
          file |-> <<>>]

\* CTextureManagerImpl::GetSettingsFile: [m, file], file being <<>> for NULL
GetSettingsFile(m, path) ==
    IF path \in DOMAIN m.sf
    THEN [m |-> m, file |-> IF m.sf[path].loaded THEN <<m.sf[path].data>> ELSE <<>>]
    ELSE IF FileExists(path)
    THEN [m |-> [m EXCEPT !.sf = With(m.sf, path, [loaded |-> TRUE, data |-> vfs[path].data])],
          file |-> <<vfs[path].data>>]
    ELSE [m |-> [m EXCEPT !.sf = With(m.sf, path, [loaded |-> FALSE, data |-> 0])],
          file |-> <<>>]

\* m_HotloadFiles[path].insert(texture)
HotloadInsert(m, path, t) ==
    [m EXCEPT !.hf = With(m.hf, path, IF path \in DOMAIN m.hf THEN m.hf[path] \cup {t} ELSE {t})]

\* the loop of GetConverterSettings over the first n components of the path:
\* [m, files]
RECURSIVE SettingsLoop(_, _, _)
SettingsLoop(m, t, n) ==
    IF n = 0 THEN [m |-> m, files |-> <<>>]
    ELSE LET before == SettingsLoop(m, t, n - 1)
             settingsPath == SettingsPath(before.m.tx[t].m_Properties.m_Path, n - 1)
             got == GetSettingsFile(HotloadInsert(before.m, settingsPath, t), settingsPath)
         IN  [m |-> got.m, files |-> before.files \o got.file]

\* m_TextureConverter.ComputeSettings: the settings, as the list of the
\* settings files they are folded from
ComputeSettings(leaf, files) == files

\* GetConverterSettings stopping before the directory of the source file
GetConverterSettingsParents(m, t) ==
    LET srcPath == m.tx[t].m_Properties.m_Path
        looped == SettingsLoop(m, t, Len(srcPath.dir))
    IN  [m |-> looped.m, settings |-> ComputeSettings(srcPath.leaf, looped.files)]

\* CTextureManagerImpl::GetConverterSettings: [m, settings]
GetConverterSettings(m, t) ==
    LET srcPath == m.tx[t].m_Properties.m_Path
        looped == SettingsLoop(m, t, Len(srcPath.dir) + 1)
    IN  [m |-> looped.m, settings |-> ComputeSettings(srcPath.leaf, looped.files)]

\* u32 version of LooseCachePath
CacheVersion == 0

\* the MD5 digest of (mtime, size, version, settings), taken as injective
Digest(mtime, size, version, settings) == <<mtime, size, version, settings>>

\* LooseCachePath hashing the modification time with its lowest bit
LooseCachePathNoMask(m, t) ==
    LET sourcePath == m.tx[t].m_Properties.m_Path
    IN  IF ~FileExists(sourcePath) THEN [m |-> m, path |-> EmptyPath]
        ELSE LET cs == GetConverterSettings(m, t)
             IN  [m |-> cs.m,
                  path |-> [dir |-> <<"cache">> \o sourcePath.dir, leaf |-> sourcePath.leaf,
                            digest |-> Digest(vfs[sourcePath].mtime, vfs[sourcePath].size,
                                              CacheVersion, cs.settings),
                            dds |-> TRUE]]

\* CTextureManagerImpl::LooseCachePath: [m, path]
LooseCachePath(m, t) ==
    LET sourcePath == m.tx[t].m_Properties.m_Path
    IN  IF ~FileExists(sourcePath) THEN [m |-> m, path |-> EmptyPath]
        ELSE LET mtime == vfs[sourcePath].mtime - (vfs[sourcePath].mtime % 2)
                 size == vfs[sourcePath].size
                 cs == GetConverterSettings(m, t)
             IN  [m |-> cs.m,
                  path |-> [dir |-> <<"cache">> \o sourcePath.dir, leaf |-> sourcePath.leaf,
                            digest |-> Digest(mtime, size, CacheVersion, cs.settings),
                            dds |-> TRUE]]

\* the file TryLoadingCached hands to LoadTexture, <<>> when it loads none
CachedFile(m, t) ==
    LET sourcePath == m.tx[t].m_Properties.m_Path
        loose == LooseCachePath(m, t).path
    IN  IF CanUseArchiveCache(sourcePath, ArchiveCachePath(sourcePath))
        THEN <<ArchiveCachePath(sourcePath)>>
        ELSE IF ~FileExists(sourcePath) THEN <<>>
        ELSE IF FileExists(loose) THEN <<loose>>
        ELSE <<>>

\* TryLoadingCached looking for the loose cache before the archive cache
TryLoadingCachedLooseFirst(m, t, outcome) ==
    LET sourcePath == m.tx[t].m_Properties.m_Path
        archiveCachePath == ArchiveCachePath(sourcePath)
        loose == LooseCachePath(m, t)
    IN  IF FileExists(sourcePath) /\ FileExists(loose.path)
        THEN [m |-> LoadTexture(loose.m, t, loose.path, outcome), ok |-> TRUE, how |-> "loose"]
        ELSE IF CanUseArchiveCache(sourcePath, archiveCachePath)
        THEN [m |-> LoadTexture(m, t, archiveCachePath, outcome), ok |-> TRUE, how |-> "archive"]
        ELSE IF ~FileExists(sourcePath)
        THEN [m |-> SetHandle(m, t, m_ErrorHandle, FALSE), ok |-> TRUE, how |-> "no_source"]
        ELSE [m |-> loose.m, ok |-> FALSE, how |-> "miss"]

\* CTextureManagerImpl::TryLoadingCached: [m, ok, how]
TryLoadingCached(m, t, outcome) ==
    LET sourcePath == m.tx[t].m_Properties.m_Path
        archiveCachePath == ArchiveCachePath(sourcePath)
    IN  IF CanUseArchiveCache(sourcePath, archiveCachePath)
        THEN [m |-> LoadTexture(m, t, archiveCachePath, outcome), ok |-> TRUE, how |-> "archive"]
        ELSE IF ~FileExists(sourcePath)
        THEN [m |-> SetHandle(m, t, m_ErrorHandle, FALSE), ok |-> TRUE, how |-> "no_source"]
        ELSE LET loose == LooseCachePath(m, t)
             IN  IF FileExists(loose.path)
                 THEN [m |-> LoadTexture(loose.m, t, loose.path, outcome), ok |-> TRUE, how |-> "loose"]
                 ELSE [m |-> loose.m, ok |-> FALSE, how |-> "miss"]

-----------------------------------------------------------------------------
(* The texture converter (graphics/TextureConverter): the queue of the jobs  *)
(* handed to it, each [texture, dest, status], status being "pending" until *)
(* the worker thread has finished the job.                                  *)

\* CTextureConverter::ConvertTexture
ConverterConvertTexture(queue, texture, dest) ==
    Append(queue, [texture |-> texture, dest |-> dest, status |-> "pending"])

\* CTextureConverter::Poll: whether a finished job is there to hand back
ConverterPoll(queue) == queue # <<>> /\ queue[1].status # "pending"

\* CTextureConverter::IsBusy
ConverterIsBusy(queue) == queue # <<>>

-----------------------------------------------------------------------------
(* Calls *)

Ret(op, tex, ok, load, step) ==
    [op |-> op, tex |-> tex, ok |-> ok, load |-> load, step |-> step]

Store(m) ==
    /\ textures' = m.tx
    /\ handles' = m.hr
    /\ m_HotloadFiles' = m.hf
    /\ m_SettingsFiles' = m.sf

SetState(m, t, state) == [m EXCEPT !.tx[t].m_State = state]

\* the positions of the cache whose texture is equivalent to props
Find(props) ==
    { i \in 1..Len(m_TextureCache) :
        Equivalent(textures[m_TextureCache[i]].m_Properties, props) }

\* std::set::insert: after the textures that compare less
CacheInsert(cache, t, props) ==
    LET n == Cardinality({ i \in 1..Len(cache) :
                 TextureCacheCmp(textures[cache[i]].m_Properties, props) })
    IN  SubSeq(cache, 1, n) \o <<t>> \o SubSeq(cache, n + 1, Len(cache))

\* CTexture::CTexture, for a texture made with the default handle
NewTexture(props) ==
    [m_Properties |-> props, m_State |-> UNLOADED, m_Handle |-> m_DefaultHandle]

\* CreateTexture without its line for m_HotloadFiles
RegisterSourceNone(m, props, t) == m

\* what CreateTexture does to m_HotloadFiles for the new texture
RegisterSource(m, props, t) == HotloadInsert(m, props.m_Path, t)

\* the texture CTextureManagerImpl::CreateTexture returns: the one it finds,
\* or else the new one
CreateTextureResult(props) ==
    LET found == Find(props)
    IN  IF found # {} THEN m_TextureCache[CHOOSE i \in found : \A j \in found : i <= j]
        ELSE Len(m_TextureCache) + 1

\* CTextureManagerImpl::CreateTexture
CreateTexture(props) ==
    LET found == Find(props)
        t == CreateTextureResult(props)
    IN  IF found # {}
        THEN UNCHANGED vars
        ELSE /\ Len(m_TextureCache) < MaxTextures
             /\ Store(RegisterSource(
                    [Members EXCEPT !.tx = With(textures, t, NewTexture(props)),
                                    !.hr = AddRef(handles, m_DefaultHandle)],
                    props, t))
             /\ m_TextureCache' = CacheInsert(m_TextureCache, t, props)
             /\ ret' = Ret("CreateTexture", <<t>>, TRUE, "none", "inserted")
             /\ UNCHANGED <<m_DisableGL, m_ErrorTexture, m_TextureConverter, vfs, vfsChanges>>

\* CTextureManagerImpl::GetErrorTexture
GetErrorTexture == m_ErrorTexture

\* the answers of ogl_tex_load and ogl_tex_upload a cache load of t may get
CachedOutcomes(t) ==
    LET file == CachedFile(Members, t)
    IN  IF file = <<>> THEN {"none"} ELSE LoadOutcomes(file[1])

\* the body of a TryLoad that tries the cache in PREFETCH_NEEDS_CONVERTING too
TryLoadBodyRetryCache(m, t, outcome) ==
    IF m.tx[t].m_State \in {UNLOADED, PREFETCH_NEEDS_LOADING, PREFETCH_NEEDS_CONVERTING}
    THEN LET cached == TryLoadingCached(m, t, outcome)
         IN  IF cached.ok
             THEN [m |-> SetState(cached.m, t, LOADED), step |-> cached.how]
             ELSE [m |-> SetState(cached.m, t, HIGH_NEEDS_CONVERTING), step |-> cached.how]
    ELSE [m |-> m, step |-> "noop"]

\* the body of CTexture::TryLoad: [m, step]
TryLoadBody(m, t, outcome) ==
    IF m.tx[t].m_State \in {UNLOADED, PREFETCH_NEEDS_LOADING, PREFETCH_NEEDS_CONVERTING}
    THEN IF m.tx[t].m_State # PREFETCH_NEEDS_CONVERTING
         THEN LET cached == TryLoadingCached(m, t, outcome)
              IN  IF cached.ok
                  THEN [m |-> SetState(cached.m, t, LOADED), step |-> cached.how]
                  ELSE [m |-> SetState(cached.m, t, HIGH_NEEDS_CONVERTING), step |-> cached.how]
         ELSE [m |-> SetState(m, t, HIGH_NEEDS_CONVERTING), step |-> "escalate"]
    ELSE [m |-> m, step |-> "noop"]

\* CTexture::TryLoad
TryLoad(t) ==
    \E outcome \in (IF textures[t].m_State \in {UNLOADED, PREFETCH_NEEDS_LOADING}
                     THEN CachedOutcomes(t) ELSE {"none"}) :
        LET done == TryLoadBody(Members, t, outcome)
        IN  /\ Store(done.m)
            /\ ret' = IF done.step = "noop" THEN ret
                      ELSE Ret("TryLoad", <<t>>, done.m.tx[t].m_State = LOADED, outcome, done.step)
            /\ UNCHANGED <<m_DisableGL, m_ErrorTexture, m_TextureCache, m_TextureConverter,
                           vfs, vfsChanges>>

\* the body of CTexture::Prefetch
PrefetchBody(m, t) ==
    IF m.tx[t].m_State = UNLOADED THEN SetState(m, t, PREFETCH_NEEDS_LOADING) ELSE m

\* CTexture::Prefetch
Prefetch(t) ==
    /\ Store(PrefetchBody(Members, t))
    /\ ret' = IF textures[t].m_State # UNLOADED THEN ret
              ELSE Ret("Prefetch", <<t>>, TRUE, "none", "")
    /\ UNCHANGED <<m_DisableGL, m_ErrorTexture, m_TextureCache, m_TextureConverter,
                   vfs, vfsChanges>>

\* CTextureManagerImpl::ConvertTexture: [m, queue]
ConvertTexture(m, queue, t) ==
    LET loose == LooseCachePath(m, t)
        cs == GetConverterSettings(loose.m, t)
    IN  [m |-> cs.m, queue |-> ConverterConvertTexture(queue, t, loose.path)]

\* the first texture of the cache, in its order, that is in the given state:
\* <<>> when there is none
FirstInState(m, state) ==
    LET at == { i \in 1..Len(m_TextureCache) : m.tx[m_TextureCache[i]].m_State = state }
    IN  IF at = {} THEN <<>>
        ELSE <<m_TextureCache[CHOOSE i \in at : \A j \in at : i <= j]>>

\* MakeProgress asking again for a conversion that failed
ApplyResultRetry(m, job, outcome) ==
    IF job.status = "ok"
    THEN SetState(LoadTexture(m, job.texture, job.dest, outcome), job.texture, LOADED)
    ELSE SetState(m, job.texture, HIGH_NEEDS_CONVERTING)

\* MakeProgress on a completed conversion: what it does to the job's texture
ApplyResult(m, job, outcome) ==
    SetState(IF job.status = "ok"
             THEN LoadTexture(m, job.texture, job.dest, outcome)
             ELSE SetHandle(m, job.texture, m_ErrorHandle, FALSE),
             job.texture, LOADED)

\* MakeProgress on a texture in PREFETCH_NEEDS_LOADING
PrefetchLoad(m, t, outcome) ==
    LET cached == TryLoadingCached(m, t, outcome)
    IN  IF cached.ok THEN SetState(cached.m, t, LOADED)
        ELSE SetState(cached.m, t, PREFETCH_NEEDS_CONVERTING)

\* the step of a MakeProgress that does not poll the converter
ProgressStepNoPoll(m, queue) ==
    IF ~ConverterIsBusy(queue) /\ FirstInState(m, HIGH_NEEDS_CONVERTING) # <<>> THEN "high"
    ELSE IF FirstInState(m, PREFETCH_NEEDS_LOADING) # <<>> THEN "prefetch_load"
    ELSE IF ~ConverterIsBusy(queue) /\ FirstInState(m, PREFETCH_NEEDS_CONVERTING) # <<>>
         THEN "prefetch_convert"
    ELSE "idle"

\* the step of a MakeProgress that converts prefetched textures before the
\* high-priority ones
ProgressStepPrefetchFirst(m, queue) ==
    IF ConverterPoll(queue) THEN "poll"
    ELSE IF FirstInState(m, PREFETCH_NEEDS_LOADING) # <<>> THEN "prefetch_load"
    ELSE IF ~ConverterIsBusy(queue) /\ FirstInState(m, PREFETCH_NEEDS_CONVERTING) # <<>>
         THEN "prefetch_convert"
    ELSE IF ~ConverterIsBusy(queue) /\ FirstInState(m, HIGH_NEEDS_CONVERTING) # <<>> THEN "high"
    ELSE "idle"

\* the step of a MakeProgress that does not ask whether the converter is busy
ProgressStepIgnoreBusy(m, queue) ==
    IF ConverterPoll(queue) THEN "poll"
    ELSE IF FirstInState(m, HIGH_NEEDS_CONVERTING) # <<>> THEN "high"
    ELSE IF FirstInState(m, PREFETCH_NEEDS_LOADING) # <<>> THEN "prefetch_load"
    ELSE IF FirstInState(m, PREFETCH_NEEDS_CONVERTING) # <<>> THEN "prefetch_convert"
    ELSE "idle"

\* the step of a MakeProgress that converts a prefetched texture before it
\* tries the cache of another
ProgressStepConvertBeforeLoad(m, queue) ==
    IF ConverterPoll(queue) THEN "poll"
    ELSE IF ~ConverterIsBusy(queue) /\ FirstInState(m, HIGH_NEEDS_CONVERTING) # <<>> THEN "high"
    ELSE IF ~ConverterIsBusy(queue) /\ FirstInState(m, PREFETCH_NEEDS_CONVERTING) # <<>>
         THEN "prefetch_convert"
    ELSE IF FirstInState(m, PREFETCH_NEEDS_LOADING) # <<>> THEN "prefetch_load"
    ELSE "idle"

\* the step a MakeProgress call takes
ProgressStep(m, queue) ==
    IF ConverterPoll(queue) THEN "poll"
    ELSE IF ~ConverterIsBusy(queue) /\ FirstInState(m, HIGH_NEEDS_CONVERTING) # <<>> THEN "high"
    ELSE IF FirstInState(m, PREFETCH_NEEDS_LOADING) # <<>> THEN "prefetch_load"
    ELSE IF ~ConverterIsBusy(queue) /\ FirstInState(m, PREFETCH_NEEDS_CONVERTING) # <<>>
         THEN "prefetch_convert"
    ELSE "idle"

\* the body of a MakeProgress that does not return after a completed
\* conversion but goes on to the high-priority textures
MakeProgressBodyFallThrough(m, queue, outcome) ==
    LET step == ProgressStep(m, queue)
        polled == IF step = "poll" THEN ApplyResult(m, queue[1], outcome) ELSE m
        left == IF step = "poll" THEN Tail(queue) ELSE queue
        high == FirstInState(polled, HIGH_NEEDS_CONVERTING)
    IN  IF step \in {"poll", "high"} /\ ~ConverterIsBusy(left) /\ high # <<>>
        THEN LET started == ConvertTexture(SetState(polled, high[1], HIGH_IS_CONVERTING),
                                           left, high[1])
             IN  [m |-> started.m, queue |-> started.queue, ok |-> TRUE, tex |-> high]
        ELSE IF step = "poll"
        THEN [m |-> polled, queue |-> left, ok |-> TRUE, tex |-> <<queue[1].texture>>]
        ELSE IF step = "prefetch_load"
        THEN LET t == FirstInState(m, PREFETCH_NEEDS_LOADING)[1]
             IN  [m |-> PrefetchLoad(m, t, outcome), queue |-> queue, ok |-> TRUE, tex |-> <<t>>]
        ELSE IF step = "prefetch_convert"
        THEN LET t == FirstInState(m, PREFETCH_NEEDS_CONVERTING)[1]
                 started == ConvertTexture(SetState(m, t, PREFETCH_IS_CONVERTING), queue, t)
             IN  [m |-> started.m, queue |-> started.queue, ok |-> TRUE, tex |-> <<t>>]
        ELSE [m |-> m, queue |-> queue, ok |-> FALSE, tex |-> <<>>]

\* the body of CTextureManagerImpl::MakeProgress: [m, queue, ok, tex]
MakeProgressBody(m, queue, outcome) ==
    LET step == ProgressStep(m, queue)
    IN  IF step = "poll"
        THEN [m |-> ApplyResult(m, queue[1], outcome), queue |-> Tail(queue),
              ok |-> TRUE, tex |-> <<queue[1].texture>>]
        ELSE IF step = "high"
        THEN LET t == FirstInState(m, HIGH_NEEDS_CONVERTING)[1]
                 started == ConvertTexture(SetState(m, t, HIGH_IS_CONVERTING), queue, t)
             IN  [m |-> started.m, queue |-> started.queue, ok |-> TRUE, tex |-> <<t>>]
        ELSE IF step = "prefetch_load"
        THEN LET t == FirstInState(m, PREFETCH_NEEDS_LOADING)[1]
             IN  [m |-> PrefetchLoad(m, t, outcome), queue |-> queue, ok |-> TRUE, tex |-> <<t>>]
        ELSE IF step = "prefetch_convert"
        THEN LET t == FirstInState(m, PREFETCH_NEEDS_CONVERTING)[1]
                 started == ConvertTexture(SetState(m, t, PREFETCH_IS_CONVERTING), queue, t)
             IN  [m |-> started.m, queue |-> started.queue, ok |-> TRUE, tex |-> <<t>>]
        ELSE [m |-> m, queue |-> queue, ok |-> FALSE, tex |-> <<>>]

\* the answers of ogl_tex_load and ogl_tex_upload a MakeProgress call may get
ProgressOutcomes ==
    LET step == ProgressStep(Members, m_TextureConverter)
    IN  IF step = "poll"
        THEN IF m_TextureConverter[1].status = "ok"
             THEN LoadOutcomes(m_TextureConverter[1].dest) ELSE {"none"}
        ELSE IF step = "prefetch_load"
        THEN CachedOutcomes(FirstInState(Members, PREFETCH_NEEDS_LOADING)[1])
        ELSE {"none"}

\* CTextureManagerImpl::MakeProgress
MakeProgress ==
    \E outcome \in ProgressOutcomes :
        LET done == MakeProgressBody(Members, m_TextureConverter, outcome)
            step == ProgressStep(Members, m_TextureConverter)
        IN  /\ Store(done.m)
            /\ m_TextureConverter' = done.queue
            /\ ret' = IF ~done.ok THEN ret
                      ELSE Ret("MakeProgress", done.tex, done.ok, outcome,
                               IF step # "poll" THEN step
                               ELSE IF m_TextureConverter[1].status = "ok" THEN "poll_ok"
                               ELSE "poll_failed")
            /\ UNCHANGED <<m_DisableGL, m_ErrorTexture, m_TextureCache, vfs, vfsChanges>>

\* the loop of ReloadChangedFile over the textures registered under a path
RECURSIVE ResetTextures(_, _)
ResetTextures(m, ts) ==
    IF ts = {} THEN m
    ELSE LET t == CHOOSE x \in ts : TRUE
         IN  ResetTextures(SetHandle(SetState(m, t, UNLOADED), t, m_DefaultHandle, FALSE),
                           ts \ {t})

\* ReloadChangedFile resetting every texture of the cache, whatever the path
ReloadBodyAll(m, path) ==
    ResetTextures([m EXCEPT !.sf = Without(m.sf, path)],
                  { m_TextureCache[i] : i \in 1..Len(m_TextureCache) })

\* the body of CTextureManagerImpl::ReloadChangedFile
ReloadBody(m, path) ==
    LET erased == [m EXCEPT !.sf = Without(m.sf, path)]
    IN  IF path \in DOMAIN m.hf THEN ResetTextures(erased, m.hf[path]) ELSE erased

\* CTextureManagerImpl::ReloadChangedFile
ReloadChangedFile(path) ==
    LET done == ReloadBody(Members, path)
    IN
    /\ Store(done)
    /\ ret' = IF done = Members THEN ret
              ELSE Ret("ReloadChangedFile", <<>>, TRUE, "none",
                       IF path \in SourceFilePaths THEN "source" ELSE "settings")
    /\ UNCHANGED <<m_DisableGL, m_ErrorTexture, m_TextureCache, m_TextureConverter,
                   vfs, vfsChanges>>

-----------------------------------------------------------------------------
(* The environment: the converter's worker thread and the file system *)

\* the worker thread finishes the oldest pending job, writing its output
\* file when the conversion succeeded
WorkerFinish(ok) ==
    LET at == { i \in 1..Len(m_TextureConverter) : m_TextureConverter[i].status = "pending" }
        i == CHOOSE x \in at : \A y \in at : x <= y
        dest == m_TextureConverter[i].dest
    IN  /\ at # {}
        /\ m_TextureConverter' =
               [m_TextureConverter EXCEPT ![i].status = IF ok THEN "ok" ELSE "failed"]
        /\ vfs' = IF ok /\ dest # EmptyPath THEN With(vfs, dest, FileInfo(0, 0, 1, 0)) ELSE vfs
        /\ UNCHANGED <<m_DisableGL, textures, handles, m_ErrorTexture, m_TextureCache,
                       m_HotloadFiles, m_SettingsFiles, vfsChanges, ret>>

\* what the environment writes: the first source file edited, an archive
\* cache for it from a mod of lower priority, a settings file at the root
EnvWrites ==
    { <<SourcePaths[1], FileInfo(1, 4, 1, 0)>>,
      <<ArchiveCachePath(SourcePaths[1]), FileInfo(0, 1, 1, 0)>>,
      <<SettingsPath(SourcePaths[1], 0), FileInfo(0, 0, 1, 1)>> }

\* what the environment deletes
EnvDeletes == SourceFilePaths \cup SettingsFilePaths

\* a file is written: created or replaced
VfsWrite(path, info) ==
    /\ vfsChanges < MaxVfsChanges
    /\ IF path \in DOMAIN vfs THEN vfs[path] # info ELSE TRUE
    /\ vfs' = With(vfs, path, info)
    /\ vfsChanges' = vfsChanges + 1
    /\ UNCHANGED <<m_DisableGL, textures, handles, m_ErrorTexture, m_TextureCache,
                   m_HotloadFiles, m_SettingsFiles, m_TextureConverter, ret>>

\* a file is deleted
VfsDelete(path) ==
    /\ vfsChanges < MaxVfsChanges
    /\ path \in DOMAIN vfs
    /\ vfs' = Without(vfs, path)
    /\ vfsChanges' = vfsChanges + 1
    /\ UNCHANGED <<m_DisableGL, textures, handles, m_ErrorTexture, m_TextureCache,
                   m_HotloadFiles, m_SettingsFiles, m_TextureConverter, ret>>

-----------------------------------------------------------------------------
(* The manager after construction *)

ErrorTexturePath == VfsPath(<<>>, "(error texture)")

\* the CTexture the constructor makes for m_ErrorTexture
ErrorTexture ==
    [m_Properties |-> CTextureProperties(ErrorTexturePath, 1, 1, 1),
     m_State |-> LOADED, m_Handle |-> m_ErrorHandle]

\* the file system at start: the source files, and an archive cache of the
\* first one that is two seconds older than it
InitialVfs ==
    [ p \in SourceFilePaths \cup {ArchiveCachePath(SourcePaths[1])} |->
        IF p \in SourceFilePaths THEN FileInfo(1, 3, 1, 0) ELSE FileInfo(1, 1, 1, 0) ]

Init ==
    /\ m_DisableGL \in BOOLEAN
    /\ textures = IF m_DisableGL THEN <<>> ELSE [ t \in {0} |-> ErrorTexture ]
    /\ handles = IF m_DisableGL THEN <<>> ELSE [ h \in {1, 2} |-> h ]
    /\ m_ErrorTexture = IF m_DisableGL THEN <<>> ELSE <<0>>
    /\ m_TextureCache = <<>>
    /\ m_HotloadFiles = <<>>
    /\ m_SettingsFiles = <<>>
    /\ m_TextureConverter = <<>>
    /\ vfs = InitialVfs
    /\ vfsChanges = 0
    /\ ret = Ret("none", <<>>, TRUE, "none", "")

\* the paths a file change is notified for
NotifiedPaths == SourceFilePaths \cup SettingsFilePaths \cup {ErrorTexturePath}

Next ==
    \/ \E props \in RequestedProperties : CreateTexture(props)
    \/ \E t \in DOMAIN textures : TryLoad(t)
    \/ \E t \in DOMAIN textures : Prefetch(t)
    \/ MakeProgress
    \/ \E path \in NotifiedPaths : ReloadChangedFile(path)
    \/ \E ok \in BOOLEAN : WorkerFinish(ok)
    \/ \E w \in EnvWrites : VfsWrite(w[1], w[2])
    \/ \E path \in EnvDeletes : VfsDelete(path)

Spec == Init /\ [][Next]_vars

\* the calls and the worker thread without file changes and their
\* notifications
LiveNext ==
    \/ \E props \in RequestedProperties : CreateTexture(props)
    \/ \E t \in DOMAIN textures : TryLoad(t)
    \/ \E t \in DOMAIN textures : Prefetch(t)
    \/ MakeProgress
    \/ \E ok \in BOOLEAN : WorkerFinish(ok)

\* whether a MakeProgress call would return true: ENABLED <<MakeProgress>>_vars
MakeProgressEnabled == ProgressStep(Members, m_TextureConverter) # "idle"

\* MakeProgress is called again and again, which is WF_vars(MakeProgress) with
\* its ENABLED written out, and the converter's worker thread finishes every
\* job handed to it
LiveSpec ==
    /\ Init
    /\ [][LiveNext]_vars
    /\ ([]<>(~MakeProgressEnabled) \/ []<><<MakeProgress>>_vars)
    /\ WF_vars(\E ok \in BOOLEAN : WorkerFinish(ok))

\* the files of the validity policy: none, or one of a priority and a
\* modification time
PolicyFiles ==
    {<<>>} \cup { <<FileInfo(priority, mtime, 1, 0)>> :
                     priority \in 0..MaxPriority, mtime \in 0..MaxMTime }

\* a file system with the given source and archive cache file of MainPath
PolicyVfs(source, archive) ==
    [ p \in (IF source = <<>> THEN {} ELSE {MainPath})
             \cup (IF archive = <<>> THEN {} ELSE {ArchiveCachePath(MainPath)}) |->
        IF p = MainPath THEN source[1] ELSE archive[1] ]

\* a manager over each file system of the validity policy
PolicyInit ==
    /\ m_DisableGL = FALSE
    /\ textures = [ t \in {0} |-> ErrorTexture ]
    /\ handles = [ h \in {1, 2} |-> h ]
    /\ m_ErrorTexture = <<0>>
    /\ m_TextureCache = <<>>
    /\ m_HotloadFiles = <<>>
    /\ m_SettingsFiles = <<>>
    /\ m_TextureConverter = <<>>
    /\ \E source, archive \in PolicyFiles : vfs = PolicyVfs(source, archive)
    /\ vfsChanges = 0
    /\ ret = Ret("none", <<>>, TRUE, "none", "")

\* a call of CanUseArchiveCache for MainPath
CanUseArchiveCacheCall ==
    /\ ret' = Ret("CanUseArchiveCache", <<>>,
                  CanUseArchiveCache(MainPath, ArchiveCachePath(MainPath)), "none", "")
    /\ UNCHANGED <<m_DisableGL, textures, handles, m_ErrorTexture, m_TextureCache,
                   m_HotloadFiles, m_SettingsFiles, m_TextureConverter, vfs, vfsChanges>>

PolicyNext == CanUseArchiveCacheCall

PolicySpec == PolicyInit /\ [][PolicyNext]_vars

\* the settings paths of MainPath
MainSettingsPaths == { SettingsPath(MainPath, n) : n \in 0..Len(MainPath.dir) }

\* the contents a settings file may have: none (no file), or its data
SettingsContents == {<<>>, <<0>>, <<1>>}

\* a file system with the source file of MainPath and the given settings
\* files at the root and in the directory of MainPath
PathVfs(mtime, size, rootSettings, dirSettings) ==
    [ p \in {MainPath}
             \cup (IF rootSettings = <<>> THEN {} ELSE {SettingsPath(MainPath, 0)})
             \cup (IF dirSettings = <<>> THEN {} ELSE {SettingsPath(MainPath, 1)}) |->
        IF p = MainPath THEN FileInfo(1, mtime, size, 0)
        ELSE IF p = SettingsPath(MainPath, 0) THEN FileInfo(0, 0, 1, rootSettings[1])
        ELSE FileInfo(0, 0, 1, dirSettings[1]) ]

\* a manager with one texture of MainPath, over each of these file systems
PathInit ==
    /\ m_DisableGL = FALSE
    /\ textures = [ t \in {0, 1} |->
                      IF t = 0 THEN ErrorTexture
                      ELSE NewTexture(CTextureProperties(MainPath, 1, 1, 1)) ]
    /\ handles = [ h \in {1, 2} |-> 2 ]
    /\ m_ErrorTexture = <<0>>
    /\ m_TextureCache = <<1>>
    /\ m_HotloadFiles = [ p \in {MainPath} |-> {1} ]
    /\ m_SettingsFiles = <<>>
    /\ m_TextureConverter = <<>>
    /\ \E mtime \in 0..MaxMTime, size \in 1..MaxSize,
           rootSettings \in SettingsContents, dirSettings \in SettingsContents :
           vfs = PathVfs(mtime, size, rootSettings, dirSettings)
    /\ vfsChanges = 0
    /\ ret = Ret("none", <<>>, TRUE, "none", "")

\* a call of LooseCachePath for a texture; ret also holds the path it
\* returned, the file info of the source it read and the settings it got
LooseCachePathCall(t) ==
    /\ Store(LooseCachePath(Members, t).m)
    /\ ret' = [op |-> "LooseCachePath", tex |-> <<t>>, ok |-> TRUE, load |-> "none",
               step |-> "",
               path |-> LooseCachePath(Members, t).path,
               source |-> vfs[textures[t].m_Properties.m_Path],
               settings |-> GetConverterSettings(Members, t).settings]
    /\ UNCHANGED <<m_DisableGL, m_ErrorTexture, m_TextureCache, m_TextureConverter,
                   vfs, vfsChanges>>

\* what the environment writes under PathSpec: the source file with another
\* time or size, a settings file with other data
PathWrites ==
    { <<MainPath, FileInfo(1, mtime, size, 0)>> : mtime \in 0..MaxMTime, size \in 1..MaxSize }
    \cup { <<SettingsPath(MainPath, n), FileInfo(0, 0, 1, data)>> : n \in {0, 1}, data \in {0, 1} }

PathNext ==
    \/ \E i \in 1..Len(m_TextureCache) : LooseCachePathCall(m_TextureCache[i])
    \/ \E path \in MainSettingsPaths : ReloadChangedFile(path)
    \/ \E w \in PathWrites : VfsWrite(w[1], w[2])
    \/ \E path \in MainSettingsPaths : VfsDelete(path)

PathSpec == PathInit /\ [][PathNext]_vars

\* a manager with one unloaded texture of MainPath, with or without its source
\* file, over each archive cache file of the validity policy
CacheLoadInit ==
    /\ m_DisableGL \in BOOLEAN
    /\ textures = IF m_DisableGL
                  THEN [ t \in {1} |-> NewTexture(CTextureProperties(MainPath, 1, 1, 1)) ]
                  ELSE [ t \in {0, 1} |->
                           IF t = 0 THEN ErrorTexture
                           ELSE NewTexture(CTextureProperties(MainPath, 1, 1, 1)) ]
    /\ handles = IF m_DisableGL THEN <<>> ELSE [ h \in {1, 2} |-> 2 ]
    /\ m_ErrorTexture = IF m_DisableGL THEN <<>> ELSE <<0>>
    /\ m_TextureCache = <<1>>
    /\ m_HotloadFiles = [ p \in {MainPath} |-> {1} ]
    /\ m_SettingsFiles = <<>>
    /\ m_TextureConverter = <<>>
    /\ \E source \in {<<>>, <<FileInfo(1, 3, 1, 0)>>}, archive \in PolicyFiles :
           vfs = PolicyVfs(source, archive)
    /\ vfsChanges = 0
    /\ ret = Ret("none", <<>>, TRUE, "none", "")

\* a call of TryLoadingCached for a texture; ret also holds the texture as it
\* was before the call
TryLoadingCachedCall(t) ==
    \E outcome \in CachedOutcomes(t) :
        LET done == TryLoadingCached(Members, t, outcome)
        IN  /\ Store(done.m)
            /\ ret' = [op |-> "TryLoadingCached", tex |-> <<t>>, ok |-> done.ok,
                       load |-> outcome, step |-> done.how, was |-> textures[t]]
            /\ UNCHANGED <<m_DisableGL, m_ErrorTexture, m_TextureCache, m_TextureConverter,
                           vfs, vfsChanges>>

\* a loose cache file of the texture is there: the output of a conversion of
\* the source file as it is, left by this or by an earlier run of the program
LooseCacheWrite(t) ==
    LET dest == LooseCachePath(Members, t).path
    IN  /\ dest # EmptyPath
        /\ ~FileExists(dest)
        /\ vfs' = With(vfs, dest, FileInfo(0, 0, 1, 0))
        /\ UNCHANGED <<m_DisableGL, textures, handles, m_ErrorTexture, m_TextureCache,
                       m_HotloadFiles, m_SettingsFiles, m_TextureConverter, vfsChanges, ret>>

CacheLoadNext ==
    \/ \E i \in 1..Len(m_TextureCache) : TryLoadingCachedCall(m_TextureCache[i])
    \/ \E i \in 1..Len(m_TextureCache) : LooseCacheWrite(m_TextureCache[i])
    \/ \E path \in {MainPath, ArchiveCachePath(MainPath)} : VfsDelete(path)

CacheLoadSpec == CacheLoadInit /\ [][CacheLoadNext]_vars

\* the types of the variables
TypeOK ==
    /\ m_DisableGL \in BOOLEAN
    /\ \A t \in DOMAIN textures : textures[t].m_State \in States
    /\ \A i \in 1..Len(m_TextureCache) : m_TextureCache[i] \in DOMAIN textures
    /\ vfsChanges \in 0..MaxVfsChanges

-----------------------------------------------------------------------------
(* Claims *)

\* the textures of the cache
Cached == { m_TextureCache[i] : i \in 1..Len(m_TextureCache) }

Props(t) == textures[t].m_Properties

State(t) == textures[t].m_State

Handle(t) == textures[t].m_Handle

\* C1: the cache never holds two textures with equal properties (nor one
\* texture twice), and CreateTexture called with the properties of a texture
\* of the cache returns that texture, whatever calls were made in between.
C1_Dedup ==
    /\ \A i, j \in 1..Len(m_TextureCache) :
          i # j => /\ m_TextureCache[i] # m_TextureCache[j]
                   /\ Props(m_TextureCache[i]) # Props(m_TextureCache[j])
    /\ \A t \in Cached : CreateTextureResult(Props(t)) = t

\* C1: two textures are in the cache, a conversion has just loaded one of
\* them, and CreateTexture with its properties returns it.
C1_Witness ==
    /\ Len(m_TextureCache) >= 2
    /\ ret.op = "MakeProgress" /\ ret.step = "poll_ok"
    /\ State(ret.tex[1]) = LOADED
    /\ CreateTextureResult(Props(ret.tex[1])) = ret.tex[1]

\* TextureCacheCmp is a strict total order on the properties: irreflexive,
\* transitive, and relating every two properties that differ in a field
CmpIsStrictTotalOrder ==
    /\ \A a \in AllProperties : ~TextureCacheCmp(a, a)
    /\ \A a, b \in AllProperties :
          /\ a # b => (TextureCacheCmp(a, b) \/ TextureCacheCmp(b, a))
          /\ ~(TextureCacheCmp(a, b) /\ TextureCacheCmp(b, a))
          /\ Equivalent(a, b) <=> (a = b)
    /\ \A a, b, c \in AllProperties :
          TextureCacheCmp(a, b) /\ TextureCacheCmp(b, c) => TextureCacheCmp(a, c)

\* C2: TextureCacheCmp is a strict total order whose equivalence is equality
\* of all four fields, and CreateTexture called with properties that differ
\* from those of a texture of the cache, be it in one field, returns another
\* texture than that one.
C2_Distinct ==
    /\ CmpIsStrictTotalOrder
    /\ \A props \in AllProperties : \A t \in Cached :
          props # Props(t) => CreateTextureResult(props) # t

\* C2: the cache holds two textures that differ in the filter alone, and
\* two that differ in the path alone have been held too.
C2_Witness ==
    \E t, u \in Cached :
        /\ Props(t).m_Path = Props(u).m_Path
        /\ Props(t).m_Filter # Props(u).m_Filter
        /\ Props(t).m_Wrap = Props(u).m_Wrap
        /\ Props(t).m_Aniso = Props(u).m_Aniso
        /\ State(t) = LOADED

\* the state of texture t, "none" while it is not made yet
StateOf(t) == IF t \in DOMAIN textures THEN textures[t].m_State ELSE "none"

\* the MakeProgress calls a texture in the given state still needs to be LOADED
StepsLeft(state) ==
    IF state = PREFETCH_NEEDS_LOADING THEN 3
    ELSE IF state \in {PREFETCH_NEEDS_CONVERTING, HIGH_NEEDS_CONVERTING} THEN 2
    ELSE IF state \in {PREFETCH_IS_CONVERTING, HIGH_IS_CONVERTING} THEN 1
    ELSE 0

RECURSIVE SumStepsLeft(_, _)
SumStepsLeft(tx, ts) ==
    IF ts = {} THEN 0
    ELSE LET t == CHOOSE x \in ts : TRUE
         IN  StepsLeft(tx[t].m_State) + SumStepsLeft(tx, ts \ {t})

\* the MakeProgress calls the textures still need
Work == SumStepsLeft(textures, DOMAIN textures)

\* C3: with MakeProgress called again and again and the converter finishing
\* its jobs, a texture whose load Prefetch or TryLoad has requested gets
\* LOADED, be it from a cache file or by a conversion; and the calls are
\* bounded: every MakeProgress call that returns true lowers the number of
\* calls the textures still need, which is at most three a texture.
C3_Progress ==
    /\ \A t \in 1..MaxTextures :
          [](StateOf(t) \in States \ {UNLOADED, LOADED} => <>(StateOf(t) = LOADED))
    /\ [][MakeProgress /\ vars' # vars => Work' < Work]_vars
    /\ [](Work <= 3 * MaxTextures)

\* C3: MakeProgress has just loaded the output of a conversion, and both a
\* texture with a usable cache file and one with none are LOADED.
C3_Witness ==
    /\ ret.op = "MakeProgress" /\ ret.step = "poll_ok"
    /\ \E t, u \in Cached :
          /\ State(t) = LOADED /\ State(u) = LOADED
          /\ CanUseArchiveCache(Props(t).m_Path, ArchiveCachePath(Props(t).m_Path))
          /\ ~CanUseArchiveCache(Props(u).m_Path, ArchiveCachePath(Props(u).m_Path))
          /\ ret.tex = <<u>>

\* the position of a texture in the cache
CachePos(t) == CHOOSE i \in 1..Len(m_TextureCache) : m_TextureCache[i] = t

\* the textures a step hands to the converter
Submitted ==
    { m_TextureConverter'[i].texture :
        i \in (Len(m_TextureConverter) + 1)..Len(m_TextureConverter') }

\* C4: TryLoad of a texture in PREFETCH_NEEDS_CONVERTING leaves it in
\* HIGH_NEEDS_CONVERTING, and while a texture is in HIGH_NEEDS_CONVERTING no
\* step hands a texture in PREFETCH_NEEDS_CONVERTING to the converter or moves
\* it to PREFETCH_IS_CONVERTING, wherever the two are in the cache's order:
\* what is handed over then is a texture in HIGH_NEEDS_CONVERTING.
C4_Escalation ==
    /\ [][\A t \in DOMAIN textures :
            State(t) = PREFETCH_NEEDS_CONVERTING /\ TryLoad(t)
                => textures'[t].m_State = HIGH_NEEDS_CONVERTING]_vars
    /\ [][(\E e \in Cached : State(e) = HIGH_NEEDS_CONVERTING)
            => /\ \A f \in Cached : State(f) = PREFETCH_NEEDS_CONVERTING
                     => /\ textures'[f].m_State # PREFETCH_IS_CONVERTING
                        /\ f \notin Submitted
               /\ \A t \in Submitted : State(t) = HIGH_NEEDS_CONVERTING]_vars

\* C4: TryLoad has just moved a texture from PREFETCH_NEEDS_CONVERTING to
\* HIGH_NEEDS_CONVERTING while a texture before it in the cache's order is in
\* PREFETCH_NEEDS_CONVERTING and the converter is free.
C4_Witness ==
    /\ ret.op = "TryLoad" /\ ret.step = "escalate"
    /\ State(ret.tex[1]) = HIGH_NEEDS_CONVERTING
    /\ m_TextureConverter = <<>>
    /\ \E f \in Cached :
          /\ State(f) = PREFETCH_NEEDS_CONVERTING
          /\ CachePos(f) < CachePos(ret.tex[1])

\* the answers ogl_tex_load and ogl_tex_upload may give
AllOutcomes == {"loaded", "load_failed", "upload_failed", "skipped", "none"}

\* C5: in every reachable state, ReloadChangedFile for the source path of a
\* texture of the cache, whatever its state, leaves the texture UNLOADED with
\* the default handle, and a TryLoad after it ends in LOADED or in
\* HIGH_NEEDS_CONVERTING; and the steps ReloadChangedFile takes leave the cache
\* as it is and every texture of the path UNLOADED with the default handle.
C5_Invalidation ==
    /\ [](\A t \in Cached :
            LET after == ReloadBody(Members, Props(t).m_Path)
            IN  /\ after.tx[t].m_State = UNLOADED
                /\ after.tx[t].m_Handle = m_DefaultHandle
                /\ \A outcome \in AllOutcomes :
                      TryLoadBody(after, t, outcome).m.tx[t].m_State
                          \in {LOADED, HIGH_NEEDS_CONVERTING})
    /\ [][\A path \in SourceFilePaths :
            ReloadChangedFile(path)
                => /\ m_TextureCache' = m_TextureCache
                   /\ \A t \in Cached : Props(t).m_Path = path
                         => /\ textures'[t].m_State = UNLOADED
                            /\ textures'[t].m_Handle = m_DefaultHandle]_vars

\* C5: ReloadChangedFile for a source path has just reset a texture, which
\* is in the cache, UNLOADED and with the default handle, and another
\* texture is LOADED with a handle of its own.
C5_Witness ==
    /\ ret.op = "ReloadChangedFile" /\ ret.step = "source"
    /\ ~m_DisableGL
    /\ \E t, u \in Cached :
          /\ State(t) = UNLOADED /\ Handle(t) = m_DefaultHandle
          /\ State(u) = LOADED /\ Handle(u) \notin {m_DefaultHandle, m_ErrorHandle}

\* C6: after a TryLoad in which ogl_tex_load or ogl_tex_upload failed for the
\* cache file, the texture is LOADED, its handle is the error handle, and the
\* call has returned true.
C6_FailureAbsorbed ==
    (ret.op = "TryLoad" /\ ret.load \in {"load_failed", "upload_failed"})
        => /\ State(ret.tex[1]) = LOADED
           /\ Handle(ret.tex[1]) = m_ErrorHandle
           /\ ret.ok

\* C6: the upload of an existing cache file has just failed in TryLoad, with
\* GL enabled.
C6_Witness ==
    /\ ret.op = "TryLoad" /\ ret.load = "upload_failed"
    /\ ret.step \in {"archive", "loose"}
    /\ ~m_DisableGL
    /\ Handle(ret.tex[1]) = m_ErrorHandle
    /\ State(ret.tex[1]) = LOADED

\* the archive cache file of MainPath
MainArchive == ArchiveCachePath(MainPath)

\* by how much the source of MainPath is newer than its archive cache file
HowMuchNewer == vfs[MainPath].mtime - vfs[MainArchive].mtime

\* the answer the validity policy gives for the files of MainPath
PolicyTable ==
    IF MainArchive \notin DOMAIN vfs THEN FALSE
    ELSE IF MainPath \notin DOMAIN vfs THEN TRUE
    ELSE IF vfs[MainPath].priority > vfs[MainArchive].priority THEN FALSE
    ELSE IF HowMuchNewer > 2 THEN FALSE
    ELSE TRUE

\* C7: for every combination of the two files being there, their priorities
\* and their modification times, CanUseArchiveCache answers as the table of
\* the validity policy: no without the archive, else yes without the source,
\* else no for a source of higher priority, else no for a source more than 2
\* seconds newer, else yes; a source newer by 2 gives yes, one newer by 3 no.
C7_Policy ==
    ret.op = "CanUseArchiveCache"
        => /\ ret.ok = PolicyTable
           /\ MainArchive \notin DOMAIN vfs => ~ret.ok
           /\ (MainArchive \in DOMAIN vfs /\ MainPath \notin DOMAIN vfs) => ret.ok
           /\ (MainArchive \in DOMAIN vfs /\ MainPath \in DOMAIN vfs
                  /\ vfs[MainPath].priority <= vfs[MainArchive].priority)
                 => /\ HowMuchNewer = 2 => ret.ok
                    /\ HowMuchNewer = 3 => ~ret.ok

\* C7: CanUseArchiveCache has answered yes for a source that is 2 seconds
\* newer than the archive cache file and of no higher priority.
C7_Witness ==
    /\ ret.op = "CanUseArchiveCache" /\ ret.ok
    /\ MainArchive \in DOMAIN vfs /\ MainPath \in DOMAIN vfs
    /\ vfs[MainPath].priority <= vfs[MainArchive].priority
    /\ HowMuchNewer = 2

\* the textures the converter is converting
Converting ==
    { t \in DOMAIN textures : State(t) \in {HIGH_IS_CONVERTING, PREFETCH_IS_CONVERTING} }

\* C8: the converter never holds more than one job, so MakeProgress hands it
\* one only when it holds none, and at most one texture is in
\* HIGH_IS_CONVERTING or PREFETCH_IS_CONVERTING: the texture of that job.
C8_OneJob ==
    /\ Len(m_TextureConverter) <= 1
    /\ Cardinality(Converting) <= 1
    /\ \A t \in Converting :
          m_TextureConverter # <<>> /\ m_TextureConverter[1].texture = t

\* C8: MakeProgress has just been called with a pending job in the converter
\* and textures waiting to be converted, and has handed over none of them.
C8_Witness ==
    /\ ret.op = "MakeProgress" /\ ret.step = "prefetch_load"
    /\ Len(m_TextureConverter) = 1 /\ m_TextureConverter[1].status = "pending"
    /\ Cardinality(Converting) = 1
    /\ \E t \in Cached : State(t) = PREFETCH_NEEDS_CONVERTING

\* C9: GetErrorTexture returns a texture, the same in every state, and that
\* texture is LOADED, whether GL is disabled or not.
C9_ErrorTexture ==
    /\ GetErrorTexture # <<>>
    /\ GetErrorTexture = <<0>>
    /\ StateOf(0) = LOADED

\* C10: after a MakeProgress that polled a failed job, the job's texture
\* is LOADED with the error handle and the call has returned true; a LOADED
\* texture leaves LOADED only by a ReloadChangedFile, which makes it
\* UNLOADED; and no step hands a texture to the converter that is not in
\* HIGH_NEEDS_CONVERTING or PREFETCH_NEEDS_CONVERTING.
C10_FailureTerminal ==
    /\ []((ret.op = "MakeProgress" /\ ret.step = "poll_failed")
            => /\ State(ret.tex[1]) = LOADED
               /\ Handle(ret.tex[1]) = m_ErrorHandle
               /\ ret.ok)
    /\ [][\A t \in DOMAIN textures :
            /\ (State(t) = LOADED /\ textures'[t].m_State # LOADED)
                  => /\ textures'[t].m_State = UNLOADED
                     /\ \E path \in NotifiedPaths : ReloadChangedFile(path)
            /\ t \in Submitted
                  => State(t) \in {HIGH_NEEDS_CONVERTING, PREFETCH_NEEDS_CONVERTING}]_vars

\* C10: MakeProgress has just polled a failed job, with GL enabled, and calls
\* of TryLoad and Prefetch for its texture change nothing.
C10_Witness ==
    /\ ret.op = "MakeProgress" /\ ret.step = "poll_failed"
    /\ ~m_DisableGL
    /\ State(ret.tex[1]) = LOADED
    /\ Handle(ret.tex[1]) = m_ErrorHandle
    /\ \A outcome \in AllOutcomes : TryLoadBody(Members, ret.tex[1], outcome).m = Members
    /\ PrefetchBody(Members, ret.tex[1]) = Members

\* C11: a load that finds neither a usable archive cache nor the source file
\* ends LOADED with the error handle; and no step hands a texture to the
\* converter whose source file does not exist at that step, also when the
\* file was removed after the texture came to need converting.
C11_MissingSourceNotConverted ==
    /\ []((ret.op \in {"TryLoad", "MakeProgress"} /\ ret.step = "no_source")
            => /\ State(ret.tex[1]) = LOADED
               /\ Handle(ret.tex[1]) = m_ErrorHandle)
    /\ [][\A t \in Submitted : FileExists(Props(t).m_Path)]_vars

\* the texture of MainPath under PathSpec
MainTexture == m_TextureCache[1]

\* the loose cache path of the texture of MainPath
MainLoosePath == LooseCachePath(Members, MainTexture).path

\* the settings resolved for the texture of MainPath
MainSettings == GetConverterSettings(Members, MainTexture).settings

\* what the claim takes the loose cache path to depend on: the source path,
\* the modification time without its lowest bit, the size, the version and
\* the resolved settings
PathInputs(sourcePath, info, settings) ==
    << sourcePath, (info.mtime \div 2) * 2, info.size, CacheVersion, settings >>

\* C12: the loose cache path is a function of the source path, the source's
\* modification time without its lowest bit, its size, the version and the
\* resolved settings alone, and with the digest injective a one-to-one
\* function of them.  In every state after a call of LooseCachePath, a new
\* derivation gives the path the call returned exactly when these inputs
\* are what they were at the call: the same path when nothing changed or
\* the time changed in its lowest bit only, another path when the time
\* changed by 2 or more, the size changed or the resolved settings changed.
C12_PathDeterminism ==
    ret.op = "LooseCachePath"
        => LET now == vfs[MainPath]
               then == ret.source
               same == MainLoosePath = ret.path
           IN  /\ same <=> (PathInputs(MainPath, now, MainSettings)
                               = PathInputs(MainPath, then, ret.settings))
               /\ (now = then /\ MainSettings = ret.settings) => same
               /\ (now.size = then.size /\ MainSettings = ret.settings
                      /\ now.mtime \div 2 = then.mtime \div 2) => same
               /\ (\/ now.mtime - then.mtime >= 2
                   \/ then.mtime - now.mtime >= 2
                   \/ now.size # then.size
                   \/ MainSettings # ret.settings) => ~same

\* C12: LooseCachePath was called with a settings file in use, the source's
\* modification time has then changed in its lowest bit only, and a new
\* derivation gives the path the call returned.
C12_Witness ==
    /\ ret.op = "LooseCachePath"
    /\ vfsChanges = 1
    /\ vfs[MainPath].mtime % 2 = 1 /\ ret.source.mtime = vfs[MainPath].mtime - 1
    /\ ret.source.size = vfs[MainPath].size
    /\ MainSettings # <<>> /\ MainSettings = ret.settings
    /\ MainLoosePath = ret.path
    /\ MainLoosePath.dds /\ MainLoosePath.dir = <<"cache">> \o MainPath.dir

\* the textures of the cache in the given state
InState(state) == { t \in Cached : State(t) = state }

\* C13: a texture handed to the converter while some texture is in
\* HIGH_NEEDS_CONVERTING was itself in HIGH_NEEDS_CONVERTING; and a texture
\* in PREFETCH_NEEDS_CONVERTING is handed over only by a MakeProgress that
\* finds the converter without any job, pending or finished, no texture in
\* HIGH_NEEDS_CONVERTING and none in PREFETCH_NEEDS_LOADING.
C13_SubmissionPriority ==
    [][\A t \in Submitted :
         /\ MakeProgress
         /\ InState(HIGH_NEEDS_CONVERTING) # {} => State(t) = HIGH_NEEDS_CONVERTING
         /\ State(t) = PREFETCH_NEEDS_CONVERTING
               => /\ ~ConverterIsBusy(m_TextureConverter)
                  /\ ~ConverterPoll(m_TextureConverter)
                  /\ InState(HIGH_NEEDS_CONVERTING) = {}
                  /\ InState(PREFETCH_NEEDS_LOADING) = {}]_vars

\* C13: MakeProgress has just handed a prefetched texture to the converter,
\* with another texture in the cache that is waiting for nothing.
C13_Witness ==
    /\ ret.op = "MakeProgress" /\ ret.step = "prefetch_convert"
    /\ State(ret.tex[1]) = PREFETCH_IS_CONVERTING
    /\ Len(m_TextureConverter) = 1 /\ m_TextureConverter[1].texture = ret.tex[1]
    /\ \E u \in Cached : u # ret.tex[1] /\ State(u) \in {UNLOADED, LOADED}

\* the textures whose state a step changes
StateChanged == { t \in DOMAIN textures : textures'[t].m_State # textures[t].m_State }

\* the textures whose handle a step changes
HandleChanged == { t \in DOMAIN textures : textures'[t].m_Handle # textures[t].m_Handle }

\* a step applies one completed job
StepApplied ==
    /\ ConverterPoll(m_TextureConverter)
    /\ m_TextureConverter' = Tail(m_TextureConverter)
    /\ StateChanged \subseteq {m_TextureConverter[1].texture}
    /\ textures'[m_TextureConverter[1].texture].m_State = LOADED

\* a step hands one texture that was in the state from to the converter
\* and leaves it in the state to
StepSubmitted(from, to) ==
    /\ Len(m_TextureConverter') = Len(m_TextureConverter) + 1
    /\ SubSeq(m_TextureConverter', 1, Len(m_TextureConverter)) = m_TextureConverter
    /\ \E t \in InState(from) : StateChanged = {t} /\ textures'[t].m_State = to

\* a step tries the cache for one texture in PREFETCH_NEEDS_LOADING
StepCacheLoad ==
    /\ m_TextureConverter' = m_TextureConverter
    /\ \E t \in InState(PREFETCH_NEEDS_LOADING) :
          /\ StateChanged = {t}
          /\ textures'[t].m_State \in {LOADED, PREFETCH_NEEDS_CONVERTING}

\* how many of the four kinds of step a step is
StepsTaken ==
    Cardinality({ k \in 1..4 :
        \/ k = 1 /\ StepApplied
        \/ k = 2 /\ StepSubmitted(HIGH_NEEDS_CONVERTING, HIGH_IS_CONVERTING)
        \/ k = 3 /\ StepCacheLoad
        \/ k = 4 /\ StepSubmitted(PREFETCH_NEEDS_CONVERTING, PREFETCH_IS_CONVERTING) })

\* C14: a MakeProgress call that changes anything changes the state of at
\* most one texture, is exactly one of the four kinds of step, and returns
\* true; and in every state a call returns true exactly when it takes a
\* step, and one that returns false changes no texture, no handle and
\* nothing of the converter.
C14_OneStep ==
    /\ [][MakeProgress
            => /\ Cardinality(StateChanged) <= 1
               /\ Cardinality(HandleChanged) <= 1
               /\ StepsTaken = 1
               /\ ret'.op = "MakeProgress" /\ ret'.ok]_vars
    /\ [](\A outcome \in ProgressOutcomes :
            LET done == MakeProgressBody(Members, m_TextureConverter, outcome)
            IN  /\ done.ok <=> ProgressStep(Members, m_TextureConverter) # "idle"
                /\ ~done.ok => /\ done.m = Members
                               /\ done.queue = m_TextureConverter)

\* C14: MakeProgress has just applied a completed job while a texture is in
\* HIGH_NEEDS_CONVERTING, which the call has left there.
C14_Witness ==
    /\ ret.op = "MakeProgress" /\ ret.step \in {"poll_ok", "poll_failed"}
    /\ m_TextureConverter = <<>>
    /\ InState(HIGH_NEEDS_CONVERTING) # {}
    /\ State(ret.tex[1]) = LOADED

\* C15: in every state and for every texture, TryLoad called in UNLOADED or
\* PREFETCH_NEEDS_LOADING tries the cache and ends in LOADED, or in
\* HIGH_NEEDS_CONVERTING on a miss; called in PREFETCH_NEEDS_CONVERTING it
\* changes the state to HIGH_NEEDS_CONVERTING and nothing else; called in
\* another state it changes nothing.  After a TryLoad the texture is not in
\* UNLOADED, PREFETCH_NEEDS_LOADING or PREFETCH_NEEDS_CONVERTING, and the call
\* has returned true exactly when the texture is LOADED.
C15_TryLoadTransitions ==
    /\ [](\A t \in DOMAIN textures :
          \A outcome \in (IF State(t) \in {UNLOADED, PREFETCH_NEEDS_LOADING}
                           THEN AllOutcomes ELSE {"none"}) :
          \A done \in {TryLoadBody(Members, t, outcome)} :
            LET after == done.m.tx[t].m_State
            IN  /\ State(t) \in {UNLOADED, PREFETCH_NEEDS_LOADING}
                      => /\ done.step \in {"archive", "no_source", "loose", "miss"}
                         /\ after = IF done.step = "miss" THEN HIGH_NEEDS_CONVERTING
                                    ELSE LOADED
                /\ State(t) = PREFETCH_NEEDS_CONVERTING
                      => /\ done.step = "escalate"
                         /\ done.m = SetState(Members, t, HIGH_NEEDS_CONVERTING)
                /\ State(t) \in {HIGH_NEEDS_CONVERTING, HIGH_IS_CONVERTING,
                                 PREFETCH_IS_CONVERTING, LOADED}
                      => done.m = Members
                /\ after \notin {UNLOADED, PREFETCH_NEEDS_LOADING, PREFETCH_NEEDS_CONVERTING})
    /\ [](ret.op = "TryLoad" => (ret.ok <=> State(ret.tex[1]) = LOADED))
    /\ [][\A t \in DOMAIN textures :
            (ret'.op = "TryLoad" /\ ret'.tex = <<t>> /\ TryLoad(t))
               => textures'[t].m_State \in {HIGH_NEEDS_CONVERTING, HIGH_IS_CONVERTING,
                                                    PREFETCH_IS_CONVERTING, LOADED}]_vars

\* C15: TryLoad has just moved a texture from PREFETCH_NEEDS_CONVERTING to
\* HIGH_NEEDS_CONVERTING and returned false although a cache file that the
\* texture could be loaded from is there by now.
C15_Witness ==
    /\ ret.op = "TryLoad" /\ ret.step = "escalate" /\ ~ret.ok
    /\ State(ret.tex[1]) = HIGH_NEEDS_CONVERTING
    /\ CachedFile(Members, ret.tex[1]) # <<>>


\* C16: TryLoadingCached returns false exactly when the archive cache is not
\* usable, the source file exists and no file exists at the loose cache path,
\* and then it leaves the texture's handle and state alone.  Otherwise it
\* returns true: after loading the archive cache whenever that one is usable
\* (a loose cache file being there or not), else after setting the error
\* handle when the source is missing, else after loading the loose cache.
C16_CacheDecision ==
    /\ [](\A t \in DOMAIN textures : \A outcome \in AllOutcomes :
          \A done \in {TryLoadingCached(Members, t, outcome)} :
            LET sourcePath == Props(t).m_Path
                archive == CanUseArchiveCache(sourcePath, ArchiveCachePath(sourcePath))
                loose == LooseCachePath(Members, t)
                miss == ~archive /\ FileExists(sourcePath) /\ ~FileExists(loose.path)
            IN  /\ ~done.ok <=> miss
                /\ ~done.ok => /\ done.m.tx[t] = textures[t]
                               /\ done.m.hr = handles
                /\ archive => /\ done.how = "archive"
                              /\ done.m = LoadTexture(Members, t, ArchiveCachePath(sourcePath), outcome)
                /\ ~archive /\ ~FileExists(sourcePath)
                      => /\ done.how = "no_source"
                         /\ done.m = SetHandle(Members, t, m_ErrorHandle, FALSE)
                /\ ~archive /\ FileExists(sourcePath) /\ FileExists(loose.path)
                      => /\ done.how = "loose"
                         /\ done.m = LoadTexture(loose.m, t, loose.path, outcome))
    /\ [](ret.op = "TryLoadingCached"
            => /\ ret.ok <=> ret.step # "miss"
               /\ ~ret.ok => textures[ret.tex[1]] = ret.was)

\* C16: TryLoadingCached has just loaded a texture from its archive cache
\* while a loose cache file of the same texture was there as well.
C16_Witness ==
    /\ ret.op = "TryLoadingCached" /\ ret.step = "archive" /\ ret.ok
    /\ FileExists(MainPath)
    /\ FileExists(LooseCachePath(Members, ret.tex[1]).path)
    /\ Handle(ret.tex[1]) \notin {m_DefaultHandle, m_ErrorHandle}


\* the textures registered in m_HotloadFiles under a path
Registered(path) == IF path \in DOMAIN m_HotloadFiles THEN m_HotloadFiles[path] ELSE {}

\* C17: in every reachable state, ReloadChangedFile for a path leaves every
\* texture registered under that path UNLOADED with the default handle and
\* every other texture with the state and the handle it had; and the steps
\* ReloadChangedFile takes change neither the texture cache nor the jobs of the
\* converter, and change the state or the handle of registered textures only.
C17_OnlyDependents ==
    /\ [](\A path \in NotifiedPaths :
          \A after \in {ReloadBody(Members, path)} :
          \A t \in DOMAIN textures :
             IF t \in Registered(path)
             THEN /\ after.tx[t].m_State = UNLOADED
                  /\ after.tx[t].m_Handle = m_DefaultHandle
             ELSE after.tx[t] = textures[t])
    /\ [][\A path \in NotifiedPaths :
            (ret'.op = "ReloadChangedFile" /\ ReloadChangedFile(path))
               => /\ m_TextureCache' = m_TextureCache
                  /\ m_TextureConverter' = m_TextureConverter
                  /\ StateChanged \cup HandleChanged \subseteq Registered(path)]_vars

\* C17: ReloadChangedFile for a source path has just reset a texture while
\* another texture, of another path, stays as it was with its conversion in
\* the converter's queue.
C17_Witness ==
    /\ ret.op = "ReloadChangedFile" /\ ret.step = "source"
    /\ m_TextureConverter # <<>>
    /\ \E t, u \in Cached :
          /\ Props(t).m_Path # Props(u).m_Path
          /\ State(t) = UNLOADED /\ Handle(t) = m_DefaultHandle
          /\ State(u) = HIGH_IS_CONVERTING
          /\ m_TextureConverter[1].texture = u

\* the textures whose m_Handle is h
Holders(h) == { t \in DOMAIN textures : textures[t].m_Handle = h }

\* the references the manager itself has: one on each of its two handles
ManagerRefs(h) == IF h \in {m_DefaultHandle, m_ErrorHandle} THEN 1 ELSE 0

\* every live handle has one reference for each texture holding it, and the
\* manager's if it is the default or the error handle; a loaded handle is
\* held by one texture
RefCountsMatch ==
    \A h \in DOMAIN handles :
        /\ handles[h] = ManagerRefs(h) + Cardinality(Holders(h))
        /\ handles[h] > 0
        /\ ManagerRefs(h) = 0 => Cardinality(Holders(h)) = 1

\* SetHandle of a texture to the handle it has changes nothing, and to
\* another live handle takes one reference on it and drops one on the old
SetHandleMovesOneRef ==
    \A t \in DOMAIN textures : \A h \in DOMAIN handles :
        \A done \in {SetHandle(Members, t, h, FALSE)} :
            IF h = Handle(t) THEN done = Members
            ELSE /\ done.tx[t].m_Handle = h
                 /\ done.hr[h] = handles[h] + 1
                 /\ IF handles[Handle(t)] = 1 THEN Handle(t) \notin DOMAIN done.hr
                    ELSE done.hr[Handle(t)] = handles[Handle(t)] - 1

\* a loaded handle is freed by the steps in which its texture replaces it,
\* and by no others
FreedWhenReplaced ==
    \A h \in DOMAIN handles :
        ManagerRefs(h) = 0
           => (h \notin DOMAIN handles' <=> \E t \in Holders(h) : textures'[t].m_Handle # h)

C19_CompletionMeetsConverting ==
    /\ [](\A i \in 1..Len(m_TextureConverter) :
            m_TextureConverter[i].texture \in Converting)
    /\ [][(MakeProgress /\ ConverterPoll(m_TextureConverter))
             => /\ m_TextureConverter[1].texture \in Converting
                /\ \A t \in DOMAIN textures :
                      State(t) = UNLOADED => textures'[t].m_State # LOADED]_vars

\* the textures.xml paths of a texture: of the root and of every directory
\* down to the one of its source file
SettingsPathsOf(t) == { SettingsPath(Props(t).m_Path, n) : n \in 0..Len(Props(t).m_Path.dir) }

\* the texture is in the hotload index hf under each of its textures.xml paths
AllRegistered(hf, t) == \A p \in SettingsPathsOf(t) : p \in DOMAIN hf /\ t \in hf[p]

\* C20: in every reachable state, GetConverterSettings, LooseCachePath for an
\* existing source, ConvertTexture, and a TryLoadingCached that gets to the
\* loose cache each leave the texture registered under all its textures.xml
\* paths, existing or not; the textures waiting for or in conversion, and the
\* texture a call has just loaded from a loose cache, submitted or taken back
\* from the converter, are registered so; no step takes a texture out of the
\* index; and ReloadChangedFile for a path a texture is registered under
\* leaves it UNLOADED with the default handle.
C20_SettingsDependencies ==
    /\ [](\A t \in Cached :
            /\ AllRegistered(GetConverterSettings(Members, t).m.hf, t)
            /\ FileExists(Props(t).m_Path) => AllRegistered(LooseCachePath(Members, t).m.hf, t)
            /\ AllRegistered(ConvertTexture(Members, m_TextureConverter, t).m.hf, t)
            /\ \A outcome \in AllOutcomes :
               \A done \in {TryLoadingCached(Members, t, outcome)} :
                  done.how \in {"loose", "miss"} => AllRegistered(done.m.hf, t)
            /\ State(t) \in {HIGH_NEEDS_CONVERTING, PREFETCH_NEEDS_CONVERTING,
                             HIGH_IS_CONVERTING, PREFETCH_IS_CONVERTING}
                  => AllRegistered(m_HotloadFiles, t)
            /\ \A p \in SettingsPathsOf(t) : \A after \in {ReloadBody(Members, p)} :
                  t \in Registered(p) => /\ after.tx[t].m_State = UNLOADED
                                         /\ after.tx[t].m_Handle = m_DefaultHandle)
    /\ []((\/ ret.op = "TryLoad" /\ ret.step \in {"loose", "miss"}
           \/ ret.op = "MakeProgress"
                /\ ret.step \in {"high", "prefetch_convert", "poll_ok", "poll_failed"})
             => AllRegistered(m_HotloadFiles, ret.tex[1]))
    /\ [][\A p \in DOMAIN m_HotloadFiles :
            p \in DOMAIN m_HotloadFiles' /\ m_HotloadFiles[p] \subseteq m_HotloadFiles'[p]]_vars

\* C20: TryLoad has just loaded a texture from its loose cache, with no
\* textures.xml in the directory of its source file, and the texture is
\* registered under that path.
C20_Witness ==
    /\ ret.op = "TryLoad" /\ ret.step = "loose"
    /\ State(ret.tex[1]) = LOADED
    /\ Props(ret.tex[1]).m_Path = MainPath
    /\ ~FileExists(SettingsPath(MainPath, 1))
    /\ ret.tex[1] \in Registered(SettingsPath(MainPath, 1))
    /\ ret.tex[1] \in Registered(SettingsPath(MainPath, 0))

\* what m_SettingsFiles holds for a path, as GetSettingsFile returns it
StoredFile(sf, path) == IF sf[path].loaded THEN <<sf[path].data>> ELSE <<>>

\* what the file system holds for a settings path now
ProbedFile(path) == IF FileExists(path) THEN <<vfs[path].data>> ELSE <<>>

\* the entry GetSettingsFile stores for a path it finds as the file system is
ProbedEntry(path) ==
    IF FileExists(path) THEN [loaded |-> TRUE, data |-> vfs[path].data]
    ELSE [loaded |-> FALSE, data |-> 0]

\* the settings of MainPath by the entries of m_SettingsFiles, root first
RECURSIVE StoredSettings(_)
StoredSettings(n) ==
    IF n = 0 THEN <<>>
    ELSE StoredSettings(n - 1) \o StoredFile(m_SettingsFiles, SettingsPath(MainPath, n - 1))

\* C21: in every reachable state, GetSettingsFile for a path m_SettingsFiles
\* has an entry for returns that entry and changes nothing, whatever the file
\* system holds by now; for a path without an entry it stores what the file
\* system holds, the settings or the marker of a missing file, returns it,
\* and returns it again when asked again; ReloadChangedFile for the path
\* removes the entry and no other, so that the next GetSettingsFile returns
\* what the file system holds.  The settings LooseCachePath got are those of
\* the stored entries, and a step changes no entry: it removes one only by
\* ReloadChangedFile for its path and adds one only as the file system is.
C21_SettingsMemo ==
    /\ [](\A path \in MainSettingsPaths :
          \A got \in {GetSettingsFile(Members, path)} :
          \A after \in {ReloadBody(Members, path)} :
            /\ IF path \in DOMAIN m_SettingsFiles
               THEN /\ got.m = Members
                    /\ got.file = StoredFile(m_SettingsFiles, path)
               ELSE /\ got.m = [Members EXCEPT
                                  !.sf = With(m_SettingsFiles, path, ProbedEntry(path))]
                    /\ got.file = ProbedFile(path)
                    /\ GetSettingsFile(got.m, path) = got
            /\ after.sf = Without(m_SettingsFiles, path)
            /\ GetSettingsFile(after, path).file = ProbedFile(path))
    /\ []((ret.op = "LooseCachePath" /\ MainSettingsPaths \subseteq DOMAIN m_SettingsFiles)
             => ret.settings = StoredSettings(Len(MainPath.dir) + 1))
    /\ [][/\ \A path \in DOMAIN m_SettingsFiles :
               IF path \in DOMAIN m_SettingsFiles'
               THEN m_SettingsFiles'[path] = m_SettingsFiles[path]
               ELSE ReloadChangedFile(path)
          /\ \A path \in DOMAIN m_SettingsFiles' :
               path \notin DOMAIN m_SettingsFiles
                  => m_SettingsFiles'[path] = ProbedEntry(path)]_vars

\* C21: LooseCachePath has run and m_SettingsFiles holds the root's
\* textures.xml as missing although the file is there by now, and the one of
\* the directory with the data of a file that is gone by now or has other
\* data.
C21_Witness ==
    /\ ret.op = "LooseCachePath"
    /\ MainSettingsPaths \subseteq DOMAIN m_SettingsFiles
    /\ \E path \in MainSettingsPaths :
          /\ StoredFile(m_SettingsFiles, path) # ProbedFile(path)
          /\ GetSettingsFile(Members, path).file # ProbedFile(path)
====
